---- MODULE Spec2Model ----
(***************************************************************************)
(* Sequential tool-calling orchestrator of backend/ai_generator.py:        *)
(* AIGenerator.generate_response and the helpers it calls, together with   *)
(* the two collaborators it talks to (the model client and the tool        *)
(* manager), which are modelled as recording, nondeterministic             *)
(* environments in the way the test doubles of backend/tests/mocks.py      *)
(* record calls.                                                           *)
(*                                                                         *)
(* Strings are tuples of one-character strings, so that lower(), the       *)
(* substring test and " ".join are computed, not assumed.                  *)
(***************************************************************************)
EXTENDS Integers, Sequences, FiniteSets, TLC

(* ------------------------------ bounds --------------------------------- *)

\* largest max_rounds argument explored besides the default (the smallest is -1)
MaxRoundsBound == 1

\* largest number of content blocks in one model response
MaxBlocks == 2

(* ------------------------- program constants --------------------------- *)

\* default of the max_rounds parameter of generate_response
DefaultMaxRounds == 2

\* base_params["temperature"]
Temperature == 0

\* base_params["max_tokens"]
MaxTokens == 800

\* the number of tools the static SYSTEM_PROMPT announces
PromptAnnouncedTools == 2

\* the marker of a soft tool failure
NOT_FOUND == <<"n","o","t"," ","f","o","u","n","d">>

\* the fixed apologetic message of _handle_tool_failure
FALLBACK_MESSAGE == <<"I"," ","e","n","c","o","u","n","t","e","r","e","d"," ","a","n"," ","i","s","s","u","e"," ","a","c","c","e","s","s","i","n","g"," ","t","h","e"," ","c","o","u","r","s","e"," ","m","a","t","e","r","i","a","l","s","."," ","P","l","e","a","s","e"," ","t","r","y"," ","r","e","p","h","r","a","s","i","n","g"," ","y","o","u","r"," ","q","u","e","s","t","i","o","n",".">>

\* MockToolManager's default result and its simulated tool error
MockSearchResult == <<"T","o","o","l"," ","r","e","s","u","l","t">>
MockToolError == <<"T","o","o","l"," ","e","x","e","c","u","t","i","o","n"," ","f","a","i","l","e","d">>

\* results carrying the failure marker, in mixed and in lower case
MixedCaseNotFound == <<"N","o","t"," ","F","o","u","n","d">>
LowerCaseNotFound == <<"t","o","o","l"," ","n","o","t"," ","f","o","u","n","d">>

(* ------------------------------ strings -------------------------------- *)

UpperLetters == <<"A","B","C","D","E","F","G","H","I","J","K","L","M","N","O","P","Q","R","S","T","U","V","W","X","Y","Z">>
LowerLetters == <<"a","b","c","d","e","f","g","h","i","j","k","l","m","n","o","p","q","r","s","t","u","v","w","x","y","z">>

\* the lower-case letter of every upper-case letter
LowerOf ==
    [c \in {UpperLetters[i] : i \in 1..Len(UpperLetters)} |->
        LowerLetters[CHOOSE i \in 1..Len(UpperLetters) : UpperLetters[i] = c]]

\* str.lower() on one character
LowerChar(c) == IF c \in DOMAIN LowerOf THEN LowerOf[c] ELSE c

\* str.lower()
Lower(s) == [i \in 1..Len(s) |-> LowerChar(s[i])]

\* the Python test  sub in s
Contains(s, sub) ==
    \E i \in 1..(Len(s) - Len(sub) + 1) : SubSeq(s, i, i + Len(sub) - 1) = sub

\* " ".join(parts)
RECURSIVE JoinSpace(_)
JoinSpace(parts) ==
    IF Len(parts) = 0 THEN <<>>
    ELSE IF Len(parts) = 1 THEN parts[1]
    ELSE parts[1] \o <<" ">> \o JoinSpace(Tail(parts))

(* --------------------------- optional values --------------------------- *)

None == [none |-> TRUE]
Some(v) == [none |-> FALSE, val |-> v]

\* Python truthiness of an optional string or list:  if x:
Truthy(x) == (~x.none) /\ Len(x.val) > 0

(* ------------------------- arguments and data -------------------------- *)

\* the query argument
Query == <<"q">>

\* a prior-conversation text
HistoryText == <<"h">>

\* MockToolManager.get_tool_definitions(): the names of the catalog's tools
ToolCatalog == <<"search_course_content", "get_course_outline">>

\* the values explored for the conversation_history argument
HistoryArgs == {None, Some(HistoryText)}

\* the values explored for the tools argument
ToolsArgs == {None, Some(<<>>), Some(ToolCatalog)}

\* the values explored for max_rounds: omitted, or -1 .. MaxRoundsBound
MaxRoundsArgs == {None} \cup {Some(n) : n \in (0 - 1)..MaxRoundsBound}

\* the stop reasons a response may carry
StopReasons == {"tool_use", "end_turn", "max_tokens"}

\* the kinds of content block
BlockTypes == {"text", "tool_use"}

\* the content shapes of a response: 1 .. MaxBlocks blocks, each of a type
Shapes == UNION {[1..n -> BlockTypes] : n \in 1..MaxBlocks}

\* payload of the text block at position pos of the response to call number call
TextAt(call, pos) == <<LowerLetters[call], LowerLetters[pos]>>

\* tool requested by the tool-use block at position pos of response number call
ToolNameAt(call, pos) ==
    IF (call + pos) % 2 = 0 THEN "get_course_outline" ELSE "search_course_content"

\* the argument mapping of a tool-use block
ToolInputOf(name) ==
    IF name = "get_course_outline" THEN [course_name |-> "Course A"]
    ELSE [query |-> "introduction"]

\* one content block as the model client builds it
MakeBlock(type, call, pos) ==
    IF type = "text"
    THEN [type |-> "text", text |-> TextAt(call, pos)]
    ELSE [type |-> "tool_use", id |-> <<call, pos>>,
          name |-> ToolNameAt(call, pos),
          input |-> ToolInputOf(ToolNameAt(call, pos))]

\* the responses the model client may give to call number call
Responses(call) ==
    {[stop_reason |-> s,
      content |-> [i \in 1..Len(shape) |-> MakeBlock(shape[i], call, i)]] :
        s \in StopReasons, shape \in Shapes}

\* what execute_tool may return (execute_tool(...) -> str)
ToolResultValues ==
    {[is_str |-> TRUE, chars |-> MockSearchResult],
     [is_str |-> TRUE, chars |-> MockToolError],
     [is_str |-> TRUE, chars |-> MixedCaseNotFound],
     [is_str |-> TRUE, chars |-> LowerCaseNotFound]}

\* the one list object generate_response creates; requests hold this reference
MessagesRef == "messages"

(* ------------------------- helpers of the code ------------------------- *)

\* max_rounds: int = 2
EffectiveMaxRounds(arg) == IF arg.none THEN DefaultMaxRounds ELSE arg.val

\* the conversation started with the history as a turn of its own
InitializeConversationWithHistory(query, history) ==
    IF Truthy(history)
    THEN <<[role |-> "user", content |-> history.val],
           [role |-> "user", content |-> query]>>
    ELSE <<[role |-> "user", content |-> query]>>

\* _initialize_conversation: the query is the only turn, history is not used
InitializeConversation(query, history) ==
    <<[role |-> "user", content |-> query]>>

\* the system content with the previous conversation left out
BuildSystemContentNoHistory(history, rounds) ==
    <<[part |-> "SYSTEM_PROMPT", limit |-> PromptAnnouncedTools],
      [part |-> "round_guidance", limit |-> rounds]>>

\* the round guidance announcing the default limit instead of max_rounds
BuildSystemContentDefaultLimit(history, rounds) ==
    <<[part |-> "SYSTEM_PROMPT", limit |-> PromptAnnouncedTools],
      [part |-> "round_guidance", limit |-> DefaultMaxRounds]>>
    \o (IF Truthy(history)
        THEN <<[part |-> "previous_conversation", text |-> history.val]>>
        ELSE <<>>)

\* _build_system_content: static prompt, round guidance, optional history
BuildSystemContent(history, rounds) ==
    <<[part |-> "SYSTEM_PROMPT", limit |-> PromptAnnouncedTools],
      [part |-> "round_guidance", limit |-> rounds]>>
    \o (IF Truthy(history)
        THEN <<[part |-> "previous_conversation", text |-> history.val]>>
        ELSE <<>>)

\* the loop test written with <= : one round too many
LoopGuardInclusive(round, rounds) == round <= rounds

\* while current_round < max_rounds
LoopGuard(round, rounds) == round < rounds

\* self.base_params as __init__ builds it
BaseParams ==
    [model |-> "claude", temperature |-> Temperature, max_tokens |-> MaxTokens]

\* the tools test written  is not None : an empty list is sent as well
ApiParamsToolsNotNone(messages_ref, system, tools_arg) ==
    LET base == [model |-> "claude", temperature |-> Temperature,
                 max_tokens |-> MaxTokens,
                 messages |-> messages_ref, system |-> system]
    IN IF ~tools_arg.none
       THEN base @@ [tools |-> tools_arg.val, tool_choice |-> [type |-> "auto"]]
       ELSE base

\* _make_claude_api_call: the keyword arguments of messages.create
ApiParams(messages_ref, system, tools_arg) ==
    LET base == [model |-> "claude", temperature |-> Temperature,
                 max_tokens |-> MaxTokens,
                 messages |-> messages_ref, system |-> system]
    IN IF Truthy(tools_arg)
       THEN base @@ [tools |-> tools_arg.val, tool_choice |-> [type |-> "auto"]]
       ELSE base

\* response.content[0].text: a block that is not a text block has no text
ContentZeroText(resp) ==
    IF resp.content[1].type = "text"
    THEN [ok |-> TRUE, text |-> resp.content[1].text]
    ELSE [ok |-> FALSE, text |-> <<>>]

\* _handle_tool_failure: the text blocks joined, or the fixed message
HandleToolFailure(resp) ==
    LET blocks == SelectSeq(resp.content, LAMBDA b : b.type = "text")
        text_content == [i \in 1..Len(blocks) |-> blocks[i].text]
    IN IF Len(text_content) > 0 THEN JoinSpace(text_content)
       ELSE FALLBACK_MESSAGE

\* the marker test without lower(): only the lower-case marker is seen
IsToolFailureCaseSensitive(tool_result) ==
    tool_result.is_str /\ Contains(tool_result.chars, NOT_FOUND)

\* the marker test widened to every result that mentions a failure
IsToolFailureAnyError(tool_result) ==
    /\ tool_result.is_str
    /\ \/ Contains(Lower(tool_result.chars), NOT_FOUND)
       \/ Contains(Lower(tool_result.chars), <<"f","a","i","l","e","d">>)

\* isinstance(tool_result, str) and "not found" in tool_result.lower()
IsToolFailure(tool_result) ==
    tool_result.is_str /\ Contains(Lower(tool_result.chars), NOT_FOUND)

\* the for loop jumping to the last tool_use block at or after position from
NextToolUseLast(content, from) ==
    IF \E i \in from..Len(content) : content[i].type = "tool_use"
    THEN CHOOSE i \in from..Len(content) :
            /\ content[i].type = "tool_use"
            /\ \A j \in (i + 1)..Len(content) : content[j].type # "tool_use"
    ELSE 0

\* the for loop's next tool_use block at or after position from, 0 if none
NextToolUse(content, from) ==
    IF \E i \in from..Len(content) : content[i].type = "tool_use"
    THEN CHOOSE i \in from..Len(content) :
            /\ content[i].type = "tool_use"
            /\ \A j \in from..(i - 1) : content[j].type # "tool_use"
    ELSE 0

\* messages.append({"role": "assistant", "content": response.content})
AppendAssistantTurn(msgs, resp) ==
    Append(msgs, [role |-> "assistant", content |-> resp.content])

\* the result put in front of the earlier results instead of behind them
AppendToolResultFront(results, block, tool_result) ==
    <<[type |-> "tool_result", tool_use_id |-> block.id,
       content |-> tool_result]>> \o results

\* tool_results.append({...tool_use_id, content})
AppendToolResult(results, block, tool_result) ==
    Append(results, [type |-> "tool_result", tool_use_id |-> block.id,
                     content |-> tool_result])

\* the results turn is never appended
AppendResultsTurnNever(msgs, results) == msgs

\* the results turn appended without the  if tool_results:  test
AppendResultsTurnAlways(msgs, results) ==
    Append(msgs, [role |-> "user", content |-> results])

\* if tool_results: messages.append({"role": "user", "content": tool_results})
AppendResultsTurn(msgs, results) ==
    IF Len(results) > 0
    THEN Append(msgs, [role |-> "user", content |-> results])
    ELSE msgs

\* what MockToolManager.execute_tool records of an invocation
ExecutionRecord(block, index) ==
    [tool_name |-> block.name, params |-> block.input, execution_index |-> index]

(* -------------------------------- state -------------------------------- *)

VARIABLES
    pc,                    \* "idle", "loop" (line 196), "exec" (line 270), "done"
    conversation_history,  \* argument of generate_response
    tools,                 \* argument of generate_response
    tool_manager,          \* argument: TRUE when a tool manager is supplied
    max_rounds,            \* argument, after the default has been applied
    rounds_given,          \* TRUE when the caller passed max_rounds
    heap,                  \* list objects by reference: heap[MessagesRef]
    system_content,        \* local of generate_response
    current_round,         \* local of _execute_sequential_rounds
    response,              \* local: the last response of the model client
    block_index,           \* position of the for loop over response.content
    tool_results,          \* local of _execute_tools_and_update_messages
    call_history,          \* model client: the kwargs of every call, in order
    call_snapshots,        \* model client: the conversation as read at each call
    call_responses,        \* model client: its answer to each call, or None
    execution_history,     \* tool manager: every invocation, in order
    executed_blocks,       \* the tool-use blocks handed to the tool manager
    execution_results,     \* tool manager: what each invocation produced
    outcome,               \* "running", "returned" or "raised"
    result,                \* the returned text
    error,                 \* the exception that left generate_response
    exit_line,             \* source line of the return or raise, 0 while running
    base_params,           \* self.base_params of the one AIGenerator instance
    runs                   \* the locals of each activation of generate_response

vars == <<pc, conversation_history, tools, tool_manager, max_rounds,
          rounds_given, heap, system_content, current_round, response,
          block_index, tool_results, call_history, call_snapshots,
          call_responses, execution_history, executed_blocks,
          execution_results, outcome, result, error, exit_line,
          base_params, runs>>

\* the state that several activations on one instance have between them
activations == <<base_params, runs>>

args == <<conversation_history, tools, tool_manager, max_rounds, rounds_given>>

\* the list the local name messages is bound to
messages == heap[MessagesRef]

\* a response before any call was answered
NoResponse == [stop_reason |-> "none", content |-> <<>>]

\* no call of generate_response has been made yet
NoCallYet ==
    /\ pc = "idle"
    /\ conversation_history = None
    /\ tools = None
    /\ tool_manager = FALSE
    /\ max_rounds = DefaultMaxRounds
    /\ rounds_given = FALSE
    /\ heap = [r \in {MessagesRef} |-> <<>>]
    /\ system_content = <<>>
    /\ current_round = 0
    /\ response = NoResponse
    /\ block_index = 0
    /\ tool_results = <<>>
    /\ call_history = <<>>
    /\ call_snapshots = <<>>
    /\ call_responses = <<>>
    /\ execution_history = <<>>
    /\ executed_blocks = <<>>
    /\ execution_results = <<>>
    /\ outcome = "running"
    /\ result = <<>>
    /\ error = "none"
    /\ exit_line = 0

\* an AIGenerator was constructed, generate_response has not been called
Init ==
    /\ NoCallYet
    /\ base_params = BaseParams
    /\ runs = <<>>

(* ------------------------------- actions ------------------------------- *)

\* return text (or the exception raised while evaluating it) at source line
Leave(extracted, line) ==
    /\ pc' = "done"
    /\ outcome' = IF extracted.ok THEN "returned" ELSE "raised"
    /\ result' = extracted.text
    /\ error' = IF extracted.ok THEN "none" ELSE "AttributeError"
    /\ exit_line' = line

\* messages.create(**api_params) is entered: the client records the call
RecordCall(tools_arg) ==
    /\ call_history' =
          Append(call_history, ApiParams(MessagesRef, system_content, tools_arg))
    /\ call_snapshots' = Append(call_snapshots, messages)

\* the round counter advanced by two for one round
CompleteRoundCountsTwice(msgs, results) ==
    /\ heap' = [heap EXCEPT ![MessagesRef] = AppendResultsTurn(msgs, results)]
    /\ current_round' = current_round + 2
    /\ tool_results' = results
    /\ block_index' = 0
    /\ pc' = "loop"
    /\ UNCHANGED <<outcome, result, error, exit_line>>

\* the tool round is over: results turn, return True, current_round += 1
CompleteRound(msgs, results) ==
    /\ heap' = [heap EXCEPT ![MessagesRef] = AppendResultsTurn(msgs, results)]
    /\ current_round' = current_round + 1
    /\ tool_results' = results
    /\ block_index' = 0
    /\ pc' = "loop"
    /\ UNCHANGED <<outcome, result, error, exit_line>>

\* generate_response is called: lines 72-73 and 194
GenerateResponse ==
    /\ pc = "idle"
    /\ \E h \in HistoryArgs, t \in ToolsArgs, tm \in BOOLEAN, mr \in MaxRoundsArgs :
          /\ conversation_history' = h
          /\ tools' = t
          /\ tool_manager' = tm
          /\ rounds_given' = ~mr.none
          /\ max_rounds' = EffectiveMaxRounds(mr)
          /\ heap' = [heap EXCEPT ![MessagesRef] = InitializeConversation(Query, h)]
          /\ system_content' = BuildSystemContent(h, EffectiveMaxRounds(mr))
    /\ current_round' = 0
    /\ pc' = "loop"
    /\ UNCHANGED <<response, block_index, tool_results, call_history,
                   call_snapshots, call_responses, execution_history,
                   executed_blocks, execution_results, outcome, result, error,
                   exit_line>>
    /\ UNCHANGED activations

\* the assistant turn appended before the tool manager is looked at
LoopCallReturnsAppendsFirst ==
    /\ pc = "loop"
    /\ LoopGuard(current_round, max_rounds)
    /\ RecordCall(tools)
    /\ \E resp \in Responses(Len(call_history) + 1) :
          /\ response' = resp
          /\ call_responses' = Append(call_responses, Some(resp))
          /\ IF resp.stop_reason # "tool_use"
             THEN /\ Leave(ContentZeroText(resp), 203)
                  /\ UNCHANGED <<heap, current_round, tool_results, block_index>>
             ELSE IF ~tool_manager
             THEN /\ Leave(ContentZeroText(resp), 207)
                  /\ heap' = [heap EXCEPT ![MessagesRef] =
                                  AppendAssistantTurn(messages, resp)]
                  /\ UNCHANGED <<current_round, tool_results, block_index>>
             ELSE IF NextToolUse(resp.content, 1) = 0
             THEN CompleteRound(AppendAssistantTurn(messages, resp), <<>>)
             ELSE /\ heap' = [heap EXCEPT ![MessagesRef] =
                                  AppendAssistantTurn(messages, resp)]
                  /\ tool_results' = <<>>
                  /\ block_index' = NextToolUse(resp.content, 1)
                  /\ pc' = "exec"
                  /\ UNCHANGED <<current_round, outcome, result, error, exit_line>>
    /\ UNCHANGED <<args, system_content, execution_history, executed_blocks,
                   execution_results>>
    /\ UNCHANGED activations

\* lines 196-218 up to the first execute_tool: a call inside the loop is answered
LoopCallReturns ==
    /\ pc = "loop"
    /\ LoopGuard(current_round, max_rounds)
    /\ RecordCall(tools)
    /\ \E resp \in Responses(Len(call_history) + 1) :
          /\ response' = resp
          /\ call_responses' = Append(call_responses, Some(resp))
          /\ IF resp.stop_reason # "tool_use"
             THEN /\ Leave(ContentZeroText(resp), 203)
                  /\ UNCHANGED <<heap, current_round, tool_results, block_index>>
             ELSE IF ~tool_manager
             THEN /\ Leave(ContentZeroText(resp), 207)
                  /\ UNCHANGED <<heap, current_round, tool_results, block_index>>
             ELSE IF NextToolUse(resp.content, 1) = 0
             THEN CompleteRound(AppendAssistantTurn(messages, resp), <<>>)
             ELSE /\ heap' = [heap EXCEPT ![MessagesRef] =
                                  AppendAssistantTurn(messages, resp)]
                  /\ tool_results' = <<>>
                  /\ block_index' = NextToolUse(resp.content, 1)
                  /\ pc' = "exec"
                  /\ UNCHANGED <<current_round, outcome, result, error, exit_line>>
    /\ UNCHANGED <<args, system_content, execution_history, executed_blocks,
                   execution_results>>
    /\ UNCHANGED activations

\* the call after the loop made with the tools still offered
FinalCallReturnsOffersTools ==
    /\ pc = "loop"
    /\ ~LoopGuard(current_round, max_rounds)
    /\ RecordCall(tools)
    /\ \E resp \in Responses(Len(call_history) + 1) :
          /\ response' = resp
          /\ call_responses' = Append(call_responses, Some(resp))
          /\ Leave(ContentZeroText(resp), 222)
    /\ UNCHANGED <<args, heap, system_content, current_round, tool_results,
                   block_index, execution_history, executed_blocks,
                   execution_results>>
    /\ UNCHANGED activations

\* lines 220-222: the budget is used up, the final call is answered
FinalCallReturns ==
    /\ pc = "loop"
    /\ ~LoopGuard(current_round, max_rounds)
    /\ RecordCall(None)
    /\ \E resp \in Responses(Len(call_history) + 1) :
          /\ response' = resp
          /\ call_responses' = Append(call_responses, Some(resp))
          /\ Leave(ContentZeroText(resp), 222)
    /\ UNCHANGED <<args, heap, system_content, current_round, tool_results,
                   block_index, execution_history, executed_blocks,
                   execution_results>>
    /\ UNCHANGED activations

\* messages.create raises and a handler turns the error into the fixed message
ModelCallRaisesCaught ==
    /\ pc = "loop"
    /\ RecordCall(IF LoopGuard(current_round, max_rounds) THEN tools ELSE None)
    /\ call_responses' = Append(call_responses, None)
    /\ pc' = "done"
    /\ outcome' = "returned"
    /\ result' = FALLBACK_MESSAGE
    /\ exit_line' = IF LoopGuard(current_round, max_rounds) THEN 198 ELSE 221
    /\ UNCHANGED <<args, heap, system_content, current_round, response,
                   tool_results, block_index, execution_history,
                   executed_blocks, execution_results, error>>
    /\ UNCHANGED activations

\* lines 198 and 221: messages.create raises, nothing catches it
ModelCallRaises ==
    /\ pc = "loop"
    /\ RecordCall(IF LoopGuard(current_round, max_rounds) THEN tools ELSE None)
    /\ call_responses' = Append(call_responses, None)
    /\ pc' = "done"
    /\ outcome' = "raised"
    /\ error' = "APIError"
    /\ exit_line' = IF LoopGuard(current_round, max_rounds) THEN 198 ELSE 221
    /\ UNCHANGED <<args, heap, system_content, current_round, response,
                   tool_results, block_index, execution_history,
                   executed_blocks, execution_results, result>>
    /\ UNCHANGED activations

\* the exception messages execute_tool may raise with
ExceptionMessages == {MockToolError, LowerCaseNotFound}

\* the tool manager is entered with the block's name and arguments
RecordExecution ==
    /\ execution_history' =
          Append(execution_history,
                 ExecutionRecord(response.content[block_index],
                                 Len(execution_history)))
    /\ executed_blocks' = Append(executed_blocks, response.content[block_index].id)

\* lines 270-289 and 214-218: execute_tool returns a value
ExecToolReturns ==
    /\ pc = "exec"
    /\ RecordExecution
    /\ \E tool_result \in ToolResultValues :
          /\ execution_results' =
                Append(execution_results, [raised |-> FALSE, value |-> tool_result])
          /\ IF IsToolFailure(tool_result)
             THEN /\ Leave([ok |-> TRUE, text |-> HandleToolFailure(response)], 216)
                  /\ UNCHANGED <<heap, current_round, tool_results, block_index>>
             ELSE LET results == AppendToolResult(tool_results,
                                     response.content[block_index], tool_result)
                      next == NextToolUse(response.content, block_index + 1)
                  IN IF next = 0
                     THEN CompleteRound(messages, results)
                     ELSE /\ tool_results' = results
                          /\ block_index' = next
                          /\ UNCHANGED <<pc, heap, current_round, outcome,
                                         result, error, exit_line>>
    /\ UNCHANGED <<args, system_content, response, call_history, call_snapshots,
                   call_responses>>
    /\ UNCHANGED activations

\* execute_tool raises and no handler catches the exception
ExecToolRaisesUncaught ==
    /\ pc = "exec"
    /\ RecordExecution
    /\ \E message \in ExceptionMessages :
          execution_results' =
              Append(execution_results,
                     [raised |-> TRUE,
                      value |-> [is_str |-> TRUE, chars |-> message]])
    /\ pc' = "done"
    /\ outcome' = "raised"
    /\ error' = "Exception"
    /\ exit_line' = 270
    /\ UNCHANGED <<args, heap, system_content, current_round, response,
                   tool_results, block_index, call_history, call_snapshots,
                   call_responses, result>>
    /\ UNCHANGED activations

\* execute_tool raises and the handler returns the exception's message
ExecToolRaisesLeaksMessage ==
    /\ pc = "exec"
    /\ RecordExecution
    /\ \E message \in ExceptionMessages :
          /\ execution_results' =
                Append(execution_results,
                       [raised |-> TRUE,
                        value |-> [is_str |-> TRUE, chars |-> message]])
          /\ Leave([ok |-> TRUE, text |-> message], 216)
    /\ UNCHANGED <<args, heap, system_content, current_round, response,
                   tool_results, block_index, call_history, call_snapshots,
                   call_responses>>
    /\ UNCHANGED activations

\* execute_tool raises and the same block is handed to the tool manager again
ExecToolRaisesRetried ==
    /\ pc = "exec"
    /\ RecordExecution
    /\ \E message \in ExceptionMessages :
          execution_results' =
              Append(execution_results,
                     [raised |-> TRUE,
                      value |-> [is_str |-> TRUE, chars |-> message]])
    /\ UNCHANGED <<pc, outcome, result, error, exit_line>>
    /\ UNCHANGED <<args, heap, system_content, current_round, response,
                   tool_results, block_index, call_history, call_snapshots,
                   call_responses>>
    /\ UNCHANGED activations

\* execute_tool raises and the results collected so far are still appended
ExecToolRaisesKeepsPartial ==
    /\ pc = "exec"
    /\ RecordExecution
    /\ \E message \in ExceptionMessages :
          execution_results' =
              Append(execution_results,
                     [raised |-> TRUE,
                      value |-> [is_str |-> TRUE, chars |-> message]])
    /\ heap' = [heap EXCEPT ![MessagesRef] = AppendResultsTurn(messages, tool_results)]
    /\ Leave([ok |-> TRUE, text |-> HandleToolFailure(response)], 216)
    /\ UNCHANGED <<args, system_content, current_round, response,
                   tool_results, block_index, call_history, call_snapshots,
                   call_responses>>
    /\ UNCHANGED activations

\* lines 291-293 and 214-216: execute_tool raises, the handler returns False
ExecToolRaises ==
    /\ pc = "exec"
    /\ RecordExecution
    /\ \E message \in ExceptionMessages :
          execution_results' =
              Append(execution_results,
                     [raised |-> TRUE,
                      value |-> [is_str |-> TRUE, chars |-> message]])
    /\ Leave([ok |-> TRUE, text |-> HandleToolFailure(response)], 216)
    /\ UNCHANGED <<args, heap, system_content, current_round, response,
                   tool_results, block_index, call_history, call_snapshots,
                   call_responses>>
    /\ UNCHANGED activations

Next ==
    \/ GenerateResponse
    \/ LoopCallReturns
    \/ FinalCallReturns
    \/ ModelCallRaises
    \/ ExecToolReturns
    \/ ExecToolRaises

Spec == Init /\ [][Next]_vars

\* every model call and every tool execution eventually returns or raises
LiveSpec == Spec /\ WF_vars(Next)

(* ------------------- several activations, one instance ------------------ *)

\* the activations of generate_response that share the instance
Runs == {1, 2}

\* max_rounds given to each of these activations
SharedRunRounds == 1

\* what the model client answers these activations at call number call
ScriptedAnswers(call) ==
    {None,
     Some([stop_reason |-> "end_turn",
           content |-> <<MakeBlock("text", call, 1)>>]),
     Some([stop_reason |-> "tool_use",
           content |-> <<MakeBlock("tool_use", call, 1)>>]),
     Some([stop_reason |-> "tool_use",
           content |-> <<MakeBlock("text", call, 1),
                         MakeBlock("tool_use", call, 2)>>])}

\* what the tool manager does to these activations
ScriptedExecutions ==
    {[raised |-> FALSE, value |-> [is_str |-> TRUE, chars |-> MockSearchResult]],
     [raised |-> FALSE, value |-> [is_str |-> TRUE, chars |-> LowerCaseNotFound]],
     [raised |-> TRUE, value |-> [is_str |-> TRUE, chars |-> MockToolError]]}

\* an activation that has been given its arguments and has not run a line
IdleRun(history, tools_arg, manager, rounds, answers, executions) ==
    [pc |-> "idle",
     conversation_history |-> history, tools |-> tools_arg,
     tool_manager |-> manager, max_rounds |-> rounds,
     answers |-> answers, executions |-> executions,
     messages |-> <<>>, system_content |-> <<>>, current_round |-> 0,
     response |-> NoResponse, block_index |-> 0, tool_results |-> <<>>,
     requests |-> <<>>, execution_history |-> <<>>,
     outcome |-> "running", result |-> <<>>, error |-> "none"]

\* the activations the instance may be given: run 2 carries a history
IdleRuns(r) ==
    {IdleRun(IF r = 1 THEN None ELSE Some(HistoryText), Some(ToolCatalog), TRUE,
             SharedRunRounds, <<a1, a2>>, <<e>>) :
        a1 \in ScriptedAnswers(1), a2 \in ScriptedAnswers(2),
        e \in ScriptedExecutions}

\* api_params = {**self.base_params, "messages": ..., "system": ...} and the
\* two tool keys under  if tools:
RequestFrom(base, msgs, system, tools_arg) ==
    LET api_params == [messages |-> msgs, system |-> system] @@ base
    IN IF Truthy(tools_arg)
       THEN [tools |-> tools_arg.val, tool_choice |-> [type |-> "auto"]]
            @@ api_params
       ELSE api_params

\* api_params is self.base_params itself: the call writes into the instance
InstanceAfterCallInPlace(base, request) == request

\* api_params is a new dict: the call leaves self.base_params as it was
InstanceAfterCall(base, request) == base

\* return or raise out of an activation
RunLeaves(run, extracted) ==
    [run EXCEPT !.pc = "done",
                !.outcome = IF extracted.ok THEN "returned" ELSE "raised",
                !.result = extracted.text,
                !.error = IF extracted.ok THEN "none" ELSE "AttributeError"]

\* the tool round of an activation is over
RunCompletesRound(run, msgs, results) ==
    [run EXCEPT !.messages = AppendResultsTurn(msgs, results),
                !.current_round = run.current_round + 1,
                !.tool_results = results,
                !.block_index = 0,
                !.pc = "loop"]

\* the request the next model call of an activation sends
RunRequest(run, base) ==
    RequestFrom(base, run.messages, run.system_content,
                IF LoopGuard(run.current_round, run.max_rounds)
                THEN run.tools ELSE None)

\* lines 72-73 and 194: the locals of the activation are set up
RunBegins(run) ==
    [run EXCEPT !.messages = InitializeConversation(Query, run.conversation_history),
                !.system_content =
                    BuildSystemContent(run.conversation_history, run.max_rounds),
                !.current_round = 0,
                !.pc = "loop"]

\* lines 196-222: one model call of an activation and what follows it
RunCalls(run, base) ==
    LET called == [run EXCEPT !.requests = Append(run.requests, RunRequest(run, base))]
        answer == run.answers[Len(run.requests) + 1]
    IN IF answer.none
       THEN [called EXCEPT !.pc = "done", !.outcome = "raised", !.error = "APIError"]
       ELSE LET resp == answer.val
                got == [called EXCEPT !.response = resp]
            IN IF \/ ~LoopGuard(run.current_round, run.max_rounds)
                  \/ resp.stop_reason # "tool_use"
                  \/ ~run.tool_manager
               THEN RunLeaves(got, ContentZeroText(resp))
               ELSE IF NextToolUse(resp.content, 1) = 0
               THEN RunCompletesRound(got, AppendAssistantTurn(run.messages, resp), <<>>)
               ELSE [got EXCEPT !.messages = AppendAssistantTurn(run.messages, resp),
                                !.tool_results = <<>>,
                                !.block_index = NextToolUse(resp.content, 1),
                                !.pc = "exec"]

\* lines 266-293 and 214-218: one execute_tool of an activation
RunExecutes(run) ==
    LET block == run.response.content[run.block_index]
        done == run.executions[Len(run.execution_history) + 1]
        executed == [run EXCEPT !.execution_history =
                        Append(run.execution_history,
                               ExecutionRecord(block, Len(run.execution_history)))]
    IN IF done.raised \/ IsToolFailure(done.value)
       THEN RunLeaves(executed,
                      [ok |-> TRUE, text |-> HandleToolFailure(run.response)])
       ELSE LET results == AppendToolResult(run.tool_results, block, done.value)
                next == NextToolUse(run.response.content, run.block_index + 1)
            IN IF next = 0
               THEN RunCompletesRound(executed, run.messages, results)
               ELSE [executed EXCEPT !.tool_results = results,
                                     !.block_index = next]

\* the next step of an activation, given what self.base_params holds
RunStep(run, base) ==
    IF run.pc = "idle" THEN RunBegins(run)
    ELSE IF run.pc = "loop" THEN RunCalls(run, base)
    ELSE IF run.pc = "exec" THEN RunExecutes(run)
    ELSE run

\* two activations have been given their arguments on a fresh instance
SharedInit ==
    /\ NoCallYet
    /\ base_params = BaseParams
    /\ runs \in [Runs -> UNION {IdleRuns(r) : r \in Runs}]
    /\ \A r \in Runs : runs[r] \in IdleRuns(r)

\* one activation runs its next step while the others wait
RunAdvances ==
    \E r \in Runs :
        /\ runs[r].pc # "done"
        /\ runs' = [runs EXCEPT ![r] = RunStep(runs[r], base_params)]
        /\ base_params' =
              IF runs[r].pc = "loop"
              THEN InstanceAfterCall(base_params, RunRequest(runs[r], base_params))
              ELSE base_params
        /\ UNCHANGED <<pc, args, heap, system_content, current_round, response,
                       block_index, tool_results, call_history, call_snapshots,
                       call_responses, execution_history, executed_blocks,
                       execution_results, outcome, result, error, exit_line>>

SharedNext == RunAdvances

SharedSpec == SharedInit /\ [][SharedNext]_vars

(* ------------------------------- claims -------------------------------- *)

\* the tool results that contain "not found" when put in lower case
ResultsWithMarker ==
    {v \in ToolResultValues : Contains(Lower(v.chars), NOT_FOUND)}

\* C1: for every max_rounds = N >= 0 one run makes at most N + 1 model calls
\* and completes at most N tool-execution rounds, whatever the model client
\* and the tool manager do.
C1_BoundedCallsAndRounds ==
    max_rounds >= 0 =>
        /\ Len(call_history) <= max_rounds + 1
        /\ current_round <= max_rounds

\* a run with max_rounds = 2 that used both rounds and made its third call
C1_Witness ==
    /\ pc = "done"
    /\ max_rounds = 2
    /\ current_round = 2
    /\ Len(call_history) = 3

\* C2: when every in-budget call is answered with a tool-use request, a tool
\* manager and a tool catalog are supplied and every tool execution succeeds,
\* a finished run whose last call was answered has made exactly N + 1 calls,
\* the first N with the catalog, the last without it, and has returned the
\* text of the last response.
C2_AlwaysToolUseRun ==
    LET n == Len(call_history)
        answered(k) == ~call_responses[k].none
        succeeded(i) ==
            /\ ~execution_results[i].raised
            /\ execution_results[i].value \notin ResultsWithMarker
    IN (/\ pc = "done"
        /\ tool_manager
        /\ Truthy(tools)
        /\ max_rounds >= 0
        /\ \A k \in 1..n : k <= max_rounds =>
              answered(k) /\ call_responses[k].val.stop_reason = "tool_use"
        /\ \A i \in 1..Len(execution_results) : succeeded(i)
        /\ n > 0 /\ answered(n))
       => /\ n = max_rounds + 1
          /\ \A k \in 1..max_rounds : "tools" \in DOMAIN call_history[k]
          /\ "tools" \notin DOMAIN call_history[n]
          /\ outcome = "returned"
          /\ call_responses[n].val.content[1].type = "text" =>
                result = call_responses[n].val.content[1].text

\* C3: when the first response has a stop reason other than tool use, the
\* finished run has made exactly 1 model call, executed 0 tools and returned
\* the text of that response, with or without tools and a tool manager.
C3_FirstResponseNotToolUse ==
    (/\ pc = "done"
     /\ Len(call_responses) >= 1
     /\ ~call_responses[1].none
     /\ call_responses[1].val.stop_reason # "tool_use")
    => /\ Len(call_history) = 1
       /\ Len(execution_history) = 0
       /\ outcome = "returned"
       /\ call_responses[1].val.content[1].type = "text" =>
             result = call_responses[1].val.content[1].text

\* C4 as stated: after k completed tool rounds the conversation holds exactly
\* 1 + 2k turns, whatever blocks the tool-use responses had.
C4_TwoTurnsPerRound ==
    (pc \in {"loop", "done"} /\ exit_line # 216) =>
        Len(messages) = 1 + 2 * current_round

\* C4 amended: after k completed tool rounds the conversation holds 1 + k + t
\* turns, t being the number of those rounds whose response had at least one
\* tool-use block: the query, one assistant turn per round, and a user turn
\* of tool results only for a round that executed a tool. The turns are in
\* that order.
C4_TurnsPerCompletedRound ==
    LET hasTool(k) ==
            \E i \in DOMAIN call_responses[k].val.content :
                call_responses[k].val.content[i].type = "tool_use"
        withTools == {k \in 1..current_round : hasTool(k)}
    IN (pc \in {"loop", "done"} /\ exit_line # 216) =>
          /\ Len(messages) = 1 + current_round + Cardinality(withTools)
          /\ withTools = 1..current_round =>
                /\ Len(messages) = 1 + 2 * current_round
                /\ \A j \in 1..Len(messages) :
                      messages[j].role = IF j % 2 = 1 THEN "user" ELSE "assistant"

\* two rounds that each executed a tool are complete: five turns
C4_Witness ==
    /\ pc = "loop"
    /\ current_round = 2
    /\ Len(execution_history) >= 2
    /\ Len(messages) = 5

\* C5: the request recorded for the k-th model call (k = 0, 1, ...) holds
\* 1 + 2k messages when it is inspected after the run has finished.
C5_RequestsKeepTheirSnapshot ==
    pc = "done" =>
        \A k \in 1..Len(call_history) :
            Len(heap[call_history[k].messages]) = 1 + 2 * (k - 1)

\* C6: a tool result that contains "not found" in any letter case ends the
\* run at once with the fallback text: it is the last execution, no model
\* call follows, and the number of model calls is the number r of the round
\* it happened in (the r - 1 completed rounds plus the initiating call).
C6_NotFoundTerminates ==
    \A i \in 1..Len(execution_results) :
        (/\ ~execution_results[i].raised
         /\ execution_results[i].value \in ResultsWithMarker)
        => /\ i = Len(execution_results)
           /\ pc = "done"
           /\ outcome = "returned"
           /\ exit_line = 216
           /\ Len(call_history) = executed_blocks[i][1]
           /\ Len(call_history) = current_round + 1
           /\ IF \E j \in DOMAIN response.content : response.content[j].type = "text"
              THEN \A j \in DOMAIN response.content :
                      response.content[j].type = "text" =>
                          Contains(result, response.content[j].text)
              ELSE result = FALLBACK_MESSAGE

\* the second round's tool answers "Not Found" after a completed first round
C6_Witness ==
    /\ pc = "done"
    /\ current_round = 1
    /\ Len(call_history) = 2
    /\ Len(execution_results) >= 2
    /\ ~execution_results[Len(execution_results)].raised
    /\ execution_results[Len(execution_results)].value.chars = MixedCaseNotFound

\* C7: when the tool manager raises, generate_response does not raise: it
\* returns the fallback text (the fixed message when the assistant turn has no
\* text block), no model call follows the one that requested the tool, and a
\* failure in the first round leaves exactly 1 model call.
C7_ToolExceptionIsCaught ==
    \A i \in 1..Len(execution_results) :
        execution_results[i].raised
        => /\ i = Len(execution_results)
           /\ pc = "done"
           /\ outcome = "returned"
           /\ error = "none"
           /\ Len(call_history) = executed_blocks[i][1]
           /\ executed_blocks[i][1] = 1 => Len(call_history) = 1
           /\ IF \E j \in DOMAIN response.content : response.content[j].type = "text"
              THEN \A j \in DOMAIN response.content :
                      response.content[j].type = "text" =>
                          Contains(result, response.content[j].text)
              ELSE result = FALLBACK_MESSAGE

\* the first invocation raised: one model call, the fixed message returned
C7_Witness ==
    /\ pc = "done"
    /\ Len(execution_results) = 1
    /\ execution_results[1].raised
    /\ Len(call_history) = 1
    /\ result = FALLBACK_MESSAGE

\* C8: when a first-round tool returns the error string "Tool execution
\* failed", the run ends with exactly 1 model call.
C8_ToolErrorStringTerminates ==
    (/\ Len(execution_results) >= 1
     /\ ~execution_results[1].raised
     /\ execution_results[1].value.chars = MockToolError)
    => /\ Len(call_history) = 1
       /\ pc = "done" => outcome = "returned"

C10_DefaultSingleToolCall ==
    (/\ pc = "done"
     /\ ~rounds_given
     /\ tool_manager
     /\ \A k \in 1..Len(call_responses) :
           /\ ~call_responses[k].none
           /\ call_responses[k].val.stop_reason = "tool_use"
           /\ Len(call_responses[k].val.content) = 1
           /\ call_responses[k].val.content[1].type = "tool_use"
     /\ \A i \in 1..Len(execution_results) :
           /\ ~execution_results[i].raised
           /\ execution_results[i].value.chars = MockSearchResult)
    => /\ Len(call_history) = 2
       /\ Len(execution_history) = 1

\* C11: when the response asks for tool use and no tool manager was supplied,
\* generate_response does not raise: for every shape of the response content
\* the finished run has returned text.
C11_NoManagerNeverCrashes ==
    (/\ pc = "done"
     /\ ~tool_manager
     /\ Len(call_responses) >= 1
     /\ ~call_responses[Len(call_responses)].none
     /\ call_responses[Len(call_responses)].val.stop_reason = "tool_use")
    => outcome = "returned"

\* C12: a failing model call is not caught: it is the last call, the run ends
\* by raising that error, and every tool execution belongs to an earlier round.
C12_ModelCallFailurePropagates ==
    \A k \in 1..Len(call_responses) :
        call_responses[k].none
        => /\ k = Len(call_responses)
           /\ k = Len(call_history)
           /\ pc = "done"
           /\ outcome = "raised"
           /\ error = "APIError"
           /\ \A i \in 1..Len(executed_blocks) : executed_blocks[i][1] < k

\* the final, tool-less call failed after a completed tool round
C12_Witness ==
    /\ pc = "done"
    /\ error = "APIError"
    /\ exit_line = 221
    /\ current_round >= 1
    /\ Len(execution_history) >= 1
    /\ call_responses[Len(call_responses)].none

\* C13: wherever a response becomes the return value, the returned text is
\* the payload of the first text block of its content, and an empty or
\* fallback string when it has no text block; the extraction never fails.
C13_FirstTextBlockOrFallback ==
    (/\ pc = "done"
     /\ Len(call_responses) >= 1
     /\ ~call_responses[Len(call_responses)].none)
    => LET content == call_responses[Len(call_responses)].val.content
           texts == {i \in DOMAIN content : content[i].type = "text"}
       IN /\ outcome = "returned"
          /\ IF texts = {}
             THEN result \in {<<>>, FALLBACK_MESSAGE}
             ELSE result = content[CHOOSE i \in texts : \A j \in texts : i <= j].text

\* the tool-use blocks of a content, in the order the model emitted them
ToolUseBlocks(content) == SelectSeq(content, LAMBDA b : b.type = "tool_use")

\* the tool-use blocks of the successive assistant turns of a conversation
RECURSIVE RequestedBlocks(_)
RequestedBlocks(msgs) ==
    IF Len(msgs) = 0 THEN <<>>
    ELSE (IF Head(msgs).role = "assistant"
          THEN ToolUseBlocks(Head(msgs).content) ELSE <<>>)
         \o RequestedBlocks(Tail(msgs))

\* a state between rounds or after a run that did not end in a tool failure
RoundsAreComplete == (pc = "loop") \/ (pc = "done" /\ exit_line # 216)

\* C14 as stated: the conversation passed to every model call alternates
\* user/assistant from the user query on and ends with a user turn, every
\* assistant turn being followed by a user turn.
C14_CallsSeeAlternatingTurns ==
    \A k \in 1..Len(call_snapshots) :
        LET c == call_snapshots[k]
        IN /\ \A j \in 1..Len(c) :
                 c[j].role = IF j % 2 = 1 THEN "user" ELSE "assistant"
           /\ c[Len(c)].role = "user"

\* C14 amended: in the conversation passed to every model call the first turn
\* is the user query and every assistant turn that carries tool-use blocks is
\* immediately followed by a user turn with the results of exactly those
\* blocks; the turns alternate and end with a user turn when every assistant
\* turn carries a tool-use block.
C14_ToolUseTurnsAreAnswered ==
    \A k \in 1..Len(call_snapshots) :
        LET c == call_snapshots[k]
            asks(j) == /\ c[j].role = "assistant"
                       /\ \E i \in 1..Len(c[j].content) :
                             c[j].content[i].type = "tool_use"
        IN /\ c[1] = [role |-> "user", content |-> Query]
           /\ \A j \in 2..Len(c) : asks(j) =>
                 LET blocks == ToolUseBlocks(c[j].content)
                 IN /\ j < Len(c)
                    /\ c[j + 1].role = "user"
                    /\ Len(c[j + 1].content) = Len(blocks)
                    /\ \A i \in 1..Len(blocks) :
                          c[j + 1].content[i].tool_use_id = blocks[i].id
           /\ (\A j \in 2..Len(c) : c[j].role = "assistant" => asks(j)) =>
                 /\ \A j \in 1..Len(c) :
                       c[j].role = IF j % 2 = 1 THEN "user" ELSE "assistant"
                 /\ c[Len(c)].role = "user"

\* the third call is handed five turns: two tool rounds, each answered
C14_Witness ==
    /\ Len(call_snapshots) = 3
    /\ Len(call_snapshots[3]) = 5
    /\ call_snapshots[3][4].role = "assistant"
    /\ call_snapshots[3][5].role = "user"

\* C15: the invocations of the tool manager are the tool-use blocks of the
\* successive assistant turns, round by round and in emission order, each
\* with the block's name and argument mapping; the sequence is cut only at
\* the first failing invocation.
C15_ToolsRunInEmissionOrder ==
    LET expected == RequestedBlocks(messages)
        n == Len(execution_history)
        failed(i) ==
            \/ execution_results[i].raised
            \/ execution_results[i].value \in ResultsWithMarker
    IN /\ n <= Len(expected)
       /\ \A i \in 1..n :
             /\ execution_history[i].tool_name = expected[i].name
             /\ execution_history[i].params = expected[i].input
             /\ execution_history[i].execution_index = i - 1
             /\ executed_blocks[i] = expected[i].id
       /\ \A i \in 1..(n - 1) : ~failed(i)
       /\ RoundsAreComplete => n = Len(expected) /\ (n > 0 => ~failed(n))
       /\ (pc = "done" /\ exit_line = 216) => n > 0 /\ failed(n)

\* three invocations in two rounds, two of them from one assistant turn
C15_Witness ==
    /\ pc = "loop"
    /\ current_round = 2
    /\ Len(execution_history) = 3
    /\ execution_history[1].tool_name # execution_history[2].tool_name

\* C16 as stated: every successful round, whatever its number m of tool-use
\* blocks, appends exactly one user turn with exactly m tool-result entries.
C16_OneResultsTurnPerRound ==
    RoundsAreComplete =>
        \A j \in 2..Len(messages) : messages[j].role = "assistant" =>
            /\ j < Len(messages)
            /\ messages[j + 1].role = "user"
            /\ Len(messages[j + 1].content) = Len(ToolUseBlocks(messages[j].content))
            /\ j + 2 <= Len(messages) => messages[j + 2].role = "assistant"

\* C16 amended: a successful round with m >= 1 tool-use blocks appends exactly
\* one user turn; it holds exactly m tool-result entries in the order of the
\* tool-use blocks, the i-th with the identifier of the i-th block and the
\* tool manager's result for that block. A round with m = 0 appends no user
\* turn.
C16_ResultsPackedInOneTurn ==
    RoundsAreComplete =>
        \A j \in 2..Len(messages) : messages[j].role = "assistant" =>
            LET blocks == ToolUseBlocks(messages[j].content)
                m == Len(blocks)
            IN /\ m >= 1 =>
                    /\ j < Len(messages)
                    /\ messages[j + 1].role = "user"
                    /\ Len(messages[j + 1].content) = m
                    /\ \A i \in 1..m :
                          /\ messages[j + 1].content[i].type = "tool_result"
                          /\ messages[j + 1].content[i].tool_use_id = blocks[i].id
                          /\ \E e \in 1..Len(executed_blocks) :
                                /\ executed_blocks[e] = blocks[i].id
                                /\ ~execution_results[e].raised
                                /\ messages[j + 1].content[i].content =
                                      execution_results[e].value
                    /\ j + 2 <= Len(messages) => messages[j + 2].role = "assistant"
               /\ (m = 0 /\ j < Len(messages)) => messages[j + 1].role = "assistant"

\* a completed round whose assistant turn had two tool-use blocks
C16_Witness ==
    /\ pc = "loop"
    /\ current_round = 1
    /\ Len(messages) = 3
    /\ messages[3].role = "user"
    /\ Len(messages[3].content) = 2
    /\ messages[3].content[1].content # messages[3].content[2].content

\* C17 as stated: a model call carries the tool catalog only if a tool
\* manager was given and the round counter is still below max_rounds.
C17_CatalogNeedsManagerAndBudget ==
    \A k \in 1..Len(call_history) :
        "tools" \in DOMAIN call_history[k] => tool_manager /\ k - 1 < max_rounds

\* C17 amended: a model call carries the tool catalog (with tool_choice auto)
\* exactly when a non-empty catalog was given and the call is made inside the
\* loop, the round counter being below max_rounds; whether a tool manager was
\* given plays no part, and the call after the loop never carries it.
C17_CatalogNeedsToolsAndBudget ==
    \A k \in 1..Len(call_history) :
        /\ "tools" \in DOMAIN call_history[k] <=> (Truthy(tools) /\ k - 1 < max_rounds)
        /\ "tool_choice" \in DOMAIN call_history[k] <=> "tools" \in DOMAIN call_history[k]
        /\ "tools" \in DOMAIN call_history[k] =>
              /\ call_history[k].tools = tools.val
              /\ call_history[k].tool_choice = [type |-> "auto"]

\* a run without tool manager whose first call carries the catalog
C17_Witness ==
    /\ pc = "done"
    /\ ~tool_manager
    /\ Truthy(tools)
    /\ Len(call_history) = 1
    /\ "tools" \in DOMAIN call_history[1]
    /\ call_history[1].tools = ToolCatalog

\* C18: every model call of a run, the last one without tools included,
\* receives the one system content built at the start, and a given
\* conversation history is part of it in every call.
C18_OneSystemContentPerRun ==
    \A k \in 1..Len(call_history) :
        /\ call_history[k].system = system_content
        /\ call_history[k].system = call_history[1].system
        /\ Truthy(conversation_history) =>
              \E i \in 1..Len(call_history[k].system) :
                  /\ call_history[k].system[i].part = "previous_conversation"
                  /\ call_history[k].system[i].text = conversation_history.val

\* three calls with a history, the last one without the catalog
C18_Witness ==
    /\ pc = "done"
    /\ Truthy(conversation_history)
    /\ Len(call_history) = 3
    /\ "tools" \in DOMAIN call_history[2]
    /\ "tools" \notin DOMAIN call_history[3]

C20_FailureReturnsOnlyModelText ==
    (pc = "done" /\ exit_line = 216) =>
        LET turn == messages[Len(messages)]
            texts == SelectSeq(turn.content, LAMBDA b : b.type = "text")
            n == Len(execution_results)
        IN /\ outcome = "returned"
           /\ turn.role = "assistant"
           /\ Len(ToolUseBlocks(turn.content)) > 0
           /\ executed_blocks[n] \in
                 {ToolUseBlocks(turn.content)[i].id :
                     i \in 1..Len(ToolUseBlocks(turn.content))}
           /\ Len(texts) = 0 => result = FALLBACK_MESSAGE
           /\ Len(texts) = 1 => result = texts[1].text
           /\ Len(texts) > 0 =>
                 result = JoinSpace([i \in 1..Len(texts) |-> texts[i].text])
           /\ result # execution_results[n].value.chars
           /\ ~Contains(result, execution_results[n].value.chars)

\* a raised exception answered with the fixed message
C20_Witness ==
    /\ pc = "done"
    /\ exit_line = 216
    /\ execution_results[Len(execution_results)].raised
    /\ execution_results[Len(execution_results)].value.chars = MockToolError
    /\ result = FALLBACK_MESSAGE

\* the keys every request carries
BaseKeys == {"model", "temperature", "max_tokens", "messages", "system"}

\* call number k was made by the statement after the loop
IsFinalCall(k) ==
    /\ k = Len(call_history)
    /\ pc = "done"
    /\ exit_line \in {221, 222}

\* invocation number i of the tool manager raised or returned the marker
ExecutionFailed(i) ==
    \/ execution_results[i].raised
    \/ execution_results[i].value \in ResultsWithMarker

\* C21: a request has the keys tools and tool_choice (auto) exactly when a
\* non-empty tool list was given and the call is made inside the loop; with
\* tools None or empty, or on the call after the loop, it has neither. Every
\* request has model, messages and system.
C21_RequestKeys ==
    \A k \in 1..Len(call_history) :
        LET request == call_history[k]
            offered == ~tools.none /\ Len(tools.val) > 0 /\ ~IsFinalCall(k)
        IN /\ DOMAIN request =
                 BaseKeys \cup (IF offered THEN {"tools", "tool_choice"} ELSE {})
           /\ request.model = "claude"
           /\ request.messages = MessagesRef
           /\ request.system = system_content
           /\ offered => /\ request.tools = tools.val
                         /\ request.tool_choice = [type |-> "auto"]

\* an empty tool list was given and the call inside the loop has no tools key
C21_Witness ==
    /\ tools = Some(<<>>)
    /\ max_rounds >= 1
    /\ Len(call_history) = 1
    /\ exit_line = 203
    /\ DOMAIN call_history[1] = BaseKeys

\* C22: no block is handed to the tool manager twice, and a failed invocation
\* is the last thing a run does: no invocation and no model call follows, and
\* the assistant turn of the failed round was never sent to the model.
C22_NoRetry ==
    /\ \A i, j \in 1..Len(executed_blocks) :
          i # j => executed_blocks[i] # executed_blocks[j]
    /\ \A i \in 1..Len(execution_results) : ExecutionFailed(i) =>
          /\ i = Len(execution_results)
          /\ pc = "done"
          /\ exit_line = 216
          /\ Len(call_history) = executed_blocks[i][1]
          /\ messages[Len(messages)] =
                [role |-> "assistant",
                 content |-> call_responses[Len(call_responses)].val.content]
          /\ \A k \in 1..Len(call_snapshots) :
                Len(call_snapshots[k]) < Len(messages)

\* a failure in the second round, after a first round that went well
C22_Witness ==
    /\ pc = "done"
    /\ exit_line = 216
    /\ Len(call_history) = 2
    /\ Len(execution_results) >= 2
    /\ ExecutionFailed(Len(execution_results))

\* C23: when the j-th tool-use block of an assistant turn fails, blocks
\* 1..j-1 have been executed, the blocks after j are never executed, the
\* results collected for 1..j-1 are not appended to the conversation, and
\* the round counter is not incremented.
C23_FailedRoundIsDropped ==
    (pc = "done" /\ exit_line = 216) =>
        LET turn == messages[Len(messages)]
            blocks == ToolUseBlocks(turn.content)
            n == Len(executed_blocks)
            c == Len(call_history)
            j == Cardinality({e \in 1..n : executed_blocks[e][1] = c})
        IN /\ turn.role = "assistant"
           /\ j >= 1
           /\ j <= Len(blocks)
           /\ \A i \in 1..j :
                 /\ executed_blocks[n - j + i] = blocks[i].id
                 /\ ExecutionFailed(n - j + i) <=> i = j
           /\ \A i \in (j + 1)..Len(blocks) :
                 \A e \in 1..n : executed_blocks[e] # blocks[i].id
           /\ Len(tool_results) = j - 1
           /\ Len(messages) = Len(call_snapshots[c]) + 1
           /\ current_round = c - 1

\* the second of two tool-use blocks fails after the first one succeeded
C23_Witness ==
    /\ pc = "done"
    /\ exit_line = 216
    /\ Len(tool_results) = 1
    /\ Len(ToolUseBlocks(messages[Len(messages)].content)) = 2
    /\ Len(execution_results) >= 2
    /\ ~ExecutionFailed(Len(execution_results) - 1)

\* the round counter in every state
RoundCounterInRange ==
    /\ current_round >= 0
    /\ pc = "idle" => current_round = 0
    /\ max_rounds >= 0 => current_round <= max_rounds
    /\ \A k \in 1..Len(call_history) : ~IsFinalCall(k) => k - 1 < max_rounds

\* the round counter in every step
RoundCounterStep ==
    /\ pc = "idle" => current_round' = 0
    /\ current_round' \in {current_round, current_round + 1}
    /\ current_round' = current_round + 1 =>
          /\ pc \in {"loop", "exec"}
          /\ pc' = "loop"
          /\ outcome' = "running"
          /\ tool_manager
          /\ response'.stop_reason = "tool_use"
          /\ \A i \in 1..Len(execution_results') :
                /\ ~execution_results'[i].raised
                /\ execution_results'[i].value \notin ResultsWithMarker
          /\ Len(RequestedBlocks(heap'[MessagesRef])) = Len(execution_results')
    /\ (Len(call_history') > Len(call_history) /\ exit_line' \notin {221, 222}) =>
          current_round < max_rounds

\* C24: the round counter starts at 0, changes only by +1 and only when a
\* tool round has just completed successfully, never decreases, stays within
\* 0..max_rounds when max_rounds >= 0, and a call inside the loop is made
\* only while it is below max_rounds.
C24_RoundCounter == []RoundCounterInRange /\ [][RoundCounterStep]_vars

\* the counter has reached the default limit of two rounds
C24_Witness ==
    /\ pc = "done"
    /\ exit_line = 222
    /\ max_rounds = DefaultMaxRounds
    /\ current_round = max_rounds
    /\ Len(execution_results) >= 2

\* the ways a run may end
EndsInAListedWay ==
    \/ /\ exit_line = 203
       /\ outcome = "returned"
       /\ call_responses[Len(call_responses)].val.stop_reason # "tool_use"
    \/ /\ exit_line = 207
       /\ outcome = "returned"
       /\ ~tool_manager
       /\ call_responses[Len(call_responses)].val.stop_reason = "tool_use"
    \/ /\ exit_line = 216
       /\ outcome = "returned"
    \/ /\ exit_line = 222
       /\ outcome = "returned"
       /\ current_round >= max_rounds
    \/ /\ outcome = "raised"
       /\ error = "APIError"

\* C25: when every model call and tool execution returns or raises, a run
\* terminates, and it ends with the text of a response that asks for no
\* tool, the text of a tool-use response when there is no tool manager, the
\* tool-failure fallback, the text of the final call, or a propagated error
\* of a model call.
C25_TerminatesInAListedWay ==
    /\ <>(pc = "done")
    /\ [](pc = "done" => EndsInAListedWay)

\* the turns of a are the first turns of b
IsPrefix(a, b) == Len(a) <= Len(b) /\ SubSeq(b, 1, Len(a)) = a

\* the turns after the first are responses and tool results, none is a text
OnlyQueryIsText(msgs) ==
    IF msgs[1] # [role |-> "user", content |-> Query] THEN FALSE
    ELSE \A j \in 2..Len(msgs) :
            \/ msgs[j].role = "assistant"
            \/ /\ msgs[j].role = "user"
               /\ \A i \in 1..Len(msgs[j].content) :
                     msgs[j].content[i].type = "tool_result"

\* what every model call has seen of the conversation
ConversationOnlyGrows ==
    /\ \A k \in 1..Len(call_snapshots) :
          /\ call_snapshots[k][1] = [role |-> "user", content |-> Query]
          /\ k < Len(call_snapshots) =>
                IsPrefix(call_snapshots[k], call_snapshots[k + 1])
          /\ IsPrefix(call_snapshots[k], messages)
    /\ pc # "idle" =>
          /\ OnlyQueryIsText(messages)
          /\ Truthy(conversation_history) =>
                /\ messages[1].content # conversation_history.val
                /\ \E i \in 1..Len(system_content) :
                      /\ system_content[i].part = "previous_conversation"
                      /\ system_content[i].text = conversation_history.val

\* C27: the conversation is append-only: every model call sees the user
\* query as first turn, what call k saw is a prefix of what call k + 1 sees,
\* no step removes or rewrites a turn, and the conversation history given as
\* argument is never a turn of the conversation.
C27_ConversationAppendOnly ==
    /\ []ConversationOnlyGrows
    /\ [][IsPrefix(messages, heap'[MessagesRef])]_vars

\* three calls of a run that was given a history, each seeing more turns
C27_Witness ==
    /\ Truthy(conversation_history)
    /\ Len(call_snapshots) = 3
    /\ Len(call_snapshots[1]) = 1
    /\ Len(call_snapshots[2]) = 3
    /\ Len(call_snapshots[3]) = 5

\* C28: with max_rounds <= 0 a run makes exactly one model call, without the
\* tool catalog, executes no tool, appends no turn, and returns the text of
\* that response whatever its stop reason.
C28_NoBudgetSingleCall ==
    (/\ pc = "done"
     /\ max_rounds <= 0
     /\ ~call_responses[Len(call_responses)].none)
    => /\ Len(call_history) = 1
       /\ "tools" \notin DOMAIN call_history[1]
       /\ Len(execution_history) = 0
       /\ Len(messages) = 1
       /\ outcome = "returned"
       /\ \E i \in 1..Len(call_responses[1].val.content) :
             /\ call_responses[1].val.content[i].type = "text"
             /\ result = call_responses[1].val.content[i].text

\* C29: when there is no tool manager and the first response asks for a
\* tool, the run ends after that one model call: no tool is executed, the
\* round counter stays 0 and the conversation is still the one user turn.
C29_NoManagerLeavesConversation ==
    (/\ ~tool_manager
     /\ Len(call_responses) >= 1
     /\ ~call_responses[1].none
     /\ call_responses[1].val.stop_reason = "tool_use")
    => /\ pc = "done"
       /\ exit_line \in {207, 222}
       /\ Len(call_history) = 1
       /\ Len(execution_history) = 0
       /\ current_round = 0
       /\ messages = <<[role |-> "user", content |-> Query]>>

\* a tool was asked for inside the loop and there is no tool manager
C29_Witness ==
    /\ pc = "done"
    /\ exit_line = 207
    /\ ~tool_manager
    /\ Truthy(tools)
    /\ call_responses[1].val.stop_reason = "tool_use"
    /\ Len(ToolUseBlocks(call_responses[1].val.content)) >= 1
    /\ Len(messages) = 1

\* the activation run alone on an instance of its own, up to its end
RECURSIVE RunAlone(_)
RunAlone(run) ==
    IF run.pc = "done" THEN run ELSE RunAlone(RunStep(run, BaseParams))

\* the activation as it was before its first line
AsGiven(run) ==
    IdleRun(run.conversation_history, run.tools, run.tool_manager,
            run.max_rounds, run.answers, run.executions)

\* what the activations and the instance look like in every state
RunsKeepToThemselves ==
    /\ base_params = BaseParams
    /\ \A r \in Runs :
          LET alone == RunAlone(AsGiven(runs[r]))
          IN /\ IsPrefix(runs[r].requests, alone.requests)
             /\ IsPrefix(runs[r].messages, alone.messages)
             /\ runs[r].current_round <= alone.current_round
             /\ \A k \in 1..Len(runs[r].requests) :
                   /\ runs[r].requests[k].model = BaseParams.model
                   /\ runs[r].requests[k].system = runs[r].system_content
             /\ runs[r].pc = "done" => runs[r] = alone

\* a step changes the locals of one activation only
OneRunPerStep ==
    \A r \in Runs : runs'[r] # runs[r] =>
        \A o \in Runs \ {r} : runs'[o] = runs[o]

\* C26: two activations of generate_response interleaved on one instance do
\* not interfere: a step touches the conversation and round counter of one
\* activation only, self.base_params is never modified, and each activation
\* sends the requests and ends with the result it has when run alone.
C26_RunsDoNotInterfere ==
    /\ []RunsKeepToThemselves
    /\ [][OneRunPerStep]_vars

\* both activations ended after interleaved tool rounds, each with its own
\* requests: only run 2 has the history in its system content
C26_Witness ==
    /\ \A r \in Runs :
          /\ runs[r].pc = "done"
          /\ Len(runs[r].requests) = 2
          /\ Len(runs[r].execution_history) = 1
          /\ "tools" \in DOMAIN runs[r].requests[1]
          /\ "tools" \notin DOMAIN runs[r].requests[2]
    /\ Len(runs[1].system_content) # Len(runs[2].system_content)
    /\ runs[1].result # runs[2].result

====
